---- MODULE Spec2Model ----
(***************************************************************************)
(* Model of the task-tracker CLI (src/src/task_tracker/main.py).           *)
(*                                                                         *)
(* The persisted file tasks.json is the only state that survives an        *)
(* invocation.  Every invocation parses its arguments, loads the file,     *)
(* applies one command and, when it mutated the list, overwrites the file. *)
(***************************************************************************)
EXTENDS Integers, Sequences, FiniteSets, TLC

(* ------------------------------ bounds -------------------------------- *)
\* number of add invocations in one behaviour
MaxAdds == 3
\* last second of the clock
MaxNow == 1
\* largest id given on a command line
MaxArgId == 2
\* number of tasks in the store beyond which add is not run
MaxTasks == 3
\* number of add invocations on a file the program did not write
MaxFileAdds == 1

(* ------------------------------ inputs -------------------------------- *)
\* titles given to add, as sequences of characters
Titles == { <<" ", "a", " ">>, <<" ">> }
ArgIds == 1..MaxArgId

VARIABLES
  file,     \* content of DATA_FILE
  now,      \* the wall clock, in seconds
  args,     \* argparse Namespace of the last invocation
  out,      \* lines printed by the last invocation
  saved,    \* whether the last invocation called _save
  exit,     \* exit code of the last invocation
  issued,   \* ids given by add, in the order of the invocations
  pc,       \* concurrent invocations: where each one is in main()
  pargs,    \* concurrent invocations: the arguments of each
  local,    \* concurrent invocations: the local variables of each command
  pout,     \* concurrent invocations: the lines each printed
  race,     \* two invocations had both loaded before either opened the file
  origin    \* content of DATA_FILE before the first invocation

vars == <<file, now, args, out, saved, exit, issued, pc, pargs, local, pout, race,
          origin>>

\* the invocations that run concurrently
Procs == {"p1", "p2"}

(* --------------------------- values ----------------------------------- *)
\* Python's None and JSON's null
None == "None"
null == "null"

\* str.strip(): drops leading and trailing whitespace
RECURSIVE lstrip(_)
lstrip(s) == IF s # <<>> /\ Head(s) = " " THEN lstrip(Tail(s)) ELSE s

RECURSIVE rstrip(_)
rstrip(s) == IF s # <<>> /\ s[Len(s)] = " " THEN rstrip(SubSeq(s, 1, Len(s) - 1)) ELSE s

\* variant: only the leading whitespace is dropped
strip_left_only(s) == lstrip(s)

strip(s) == rstrip(lstrip(s))

\* datetime.now().isoformat(timespec="seconds") at clock value t
_now_iso(t) == "T" \o ToString(t)

(* --------------------------- the file --------------------------------- *)
\* DATA_FILE does not exist
Missing == [kind |-> "missing", items |-> <<>>]
\* text that json.load rejects with JSONDecodeError (the empty text included)
Malformed == [kind |-> "malformed", items |-> <<>>]
\* bytes that are not UTF-8: reading them raises UnicodeDecodeError
Undecodable == [kind |-> "undecodable", items |-> <<>>]
\* well-formed JSON whose top level is an object, or a number
JsonObject == [kind |-> "object", items |-> <<>>]
JsonNumber == [kind |-> "number", items |-> <<>>]

\* json.dump of one task: None is written as null
dump_task(t) ==
  [id |-> t.id, title |-> t.title, status |-> t.status,
   created_at |-> t.created_at,
   done_at |-> IF t.done_at = None THEN null ELSE t.done_at]

\* variant: null is left as it is read
load_task_keeps_null(j) ==
  [id |-> j.id, title |-> j.title, status |-> j.status,
   created_at |-> j.created_at, done_at |-> j.done_at]

\* json.load of one record: null is read as None
load_task(j) ==
  [id |-> j.id, title |-> j.title, status |-> j.status,
   created_at |-> j.created_at,
   done_at |-> IF j.done_at = null THEN None ELSE j.done_at]

json_dump(tasks) ==
  [kind |-> "array", items |-> [i \in DOMAIN tasks |-> dump_task(tasks[i])]]

\* variant: malformed text is reported with a plain ValueError
json_load_value_error(f) ==
  IF f.kind = "malformed"
  THEN [raised |-> "ValueError", kind |-> "none", items |-> <<>>]
  ELSE IF f.kind = "undecodable"
  THEN [raised |-> "UnicodeDecodeError", kind |-> "none", items |-> <<>>]
  ELSE [raised |-> "", kind |-> f.kind,
        items |-> IF f.kind = "array"
                  THEN [i \in DOMAIN f.items |-> load_task(f.items[i])]
                  ELSE f.items]

\* json.load(f): raises JSONDecodeError on malformed text, returns the
\* parsed value otherwise
json_load(f) ==
  IF f.kind = "malformed"
  THEN [raised |-> "JSONDecodeError", kind |-> "none", items |-> <<>>]
  ELSE IF f.kind = "undecodable"
  THEN [raised |-> "UnicodeDecodeError", kind |-> "none", items |-> <<>>]
  ELSE [raised |-> "", kind |-> f.kind,
        items |-> IF f.kind = "array"
                  THEN [i \in DOMAIN f.items |-> load_task(f.items[i])]
                  ELSE f.items]

\* variant: JSONDecodeError is not caught
load_result_uncaught(f) ==
  IF f.kind = "missing" THEN [raised |-> "", tasks |-> <<>>]
  ELSE LET data == json_load(f)
       IN IF data.raised # "" THEN [raised |-> data.raised, tasks |-> <<>>]
          ELSE [raised |-> "",
                tasks |-> IF data.kind = "array" THEN data.items ELSE <<>>]

\* _load(): the list returned, and the exception that escapes ("" for none)
load_result(f) ==
  IF f.kind = "missing" THEN [raised |-> "", tasks |-> <<>>]
  ELSE LET data == json_load(f)
       IN IF data.raised = "JSONDecodeError" THEN [raised |-> "", tasks |-> <<>>]
          ELSE IF data.raised # "" THEN [raised |-> data.raised, tasks |-> <<>>]
          ELSE [raised |-> "",
                tasks |-> IF data.kind = "array" THEN data.items ELSE <<>>]

_load(f) == load_result(f).tasks

\* the content of DATA_FILE right after open(DATA_FILE, "w"): the empty text
opened_w == Malformed

\* variant: the dumped records are put after those already in the file
save_append(tasks) ==
  [kind |-> "array",
   items |-> (IF file.kind = "array" THEN file.items ELSE <<>>) \o json_dump(tasks).items]

\* the content of DATA_FILE after _save(tasks)
_save(tasks) == json_dump(tasks)

(* --------------------------- helpers ---------------------------------- *)
Max(S) == CHOOSE m \in S : \A x \in S : x <= m

\* variant: max is given the default 1
next_id_default_one(tasks) ==
  (IF tasks = <<>> THEN 1 ELSE Max({tasks[i].id : i \in DOMAIN tasks})) + 1

\* variant: the largest id is returned as it is
next_id_no_increment(tasks) ==
  IF tasks = <<>> THEN 1 ELSE Max({tasks[i].id : i \in DOMAIN tasks})

\* variant: the id is taken from the number of tasks
next_id_by_len(tasks) == Len(tasks) + 1

_next_id(tasks) ==
  (IF tasks = <<>> THEN 0 ELSE Max({tasks[i].id : i \in DOMAIN tasks})) + 1

Namespace(command, title, id, all, done) ==
  [command |-> command, title |-> title, id |-> id, all |-> all, done |-> done]

Line(msg, id, title) == [msg |-> msg, id |-> id, title |-> title]

(* --------------------------- commands --------------------------------- *)
\* What a command does with the list it loaded: the list it ends with, the
\* lines it prints, whether it calls _save, and the id it gave (0 for none).
Outcome(tasks, lines, save, given) ==
  [tasks |-> tasks, out |-> lines, save |-> save, given |-> given]

\* variant: the new task is stamped as done
new_task_stamped(tasks, title, t) ==
  [id |-> _next_id(tasks), title |-> strip(title), status |-> "open",
   created_at |-> _now_iso(t), done_at |-> _now_iso(t)]

\* the dict built by cmd_add at time t
new_task(tasks, title, t) ==
  [id |-> _next_id(tasks), title |-> strip(title), status |-> "open",
   created_at |-> _now_iso(t), done_at |-> None]

\* variant: the new task is put in front of the list
cmd_add_prepend(tasks, a, t) ==
  LET task == new_task(tasks, a.title, t)
  IN Outcome(<<task>> \o tasks, << Line("added", task.id, task.title) >>,
             TRUE, task.id)

cmd_add(tasks, a, t) ==
  LET task == new_task(tasks, a.title, t)
  IN Outcome(Append(tasks, task), << Line("added", task.id, task.title) >>,
             TRUE, task.id)

\* variant: the default view is not filtered by status
view_unfiltered(tasks, all, done) ==
  IF all THEN tasks
  ELSE IF done THEN SelectSeq(tasks, LAMBDA t : t.status = "done")
  ELSE tasks

\* the tasks cmd_list shows under the flags --all and --done
view(tasks, all, done) ==
  IF all THEN tasks
  ELSE IF done THEN SelectSeq(tasks, LAMBDA t : t.status = "done")
  ELSE SelectSeq(tasks, LAMBDA t : t.status = "open")

\* the lines cmd_list prints for a view
list_lines(v) ==
  IF v = <<>> THEN << Line("no tasks to show", 0, <<>>) >>
  ELSE [i \in DOMAIN v |->
          Line(IF v[i].status = "done" THEN "done" ELSE "open", v[i].id, v[i].title)]

\* variant: the list is saved after it is shown
cmd_list_saves(tasks, a) ==
  Outcome(tasks, list_lines(view(tasks, a.all, a.done)), TRUE, 0)

cmd_list(tasks, a) ==
  Outcome(tasks, list_lines(view(tasks, a.all, a.done)), FALSE, 0)

\* variant: the last task with the id is taken
last_match(tasks, tid) ==
  CHOOSE i \in DOMAIN tasks :
    /\ tasks[i].id = tid
    /\ \A j \in (i + 1)..Len(tasks) : tasks[j].id # tid

\* index of the first task of the loop "for t in tasks: if t["id"] == tid"
first_match(tasks, tid) ==
  CHOOSE i \in DOMAIN tasks :
    /\ tasks[i].id = tid
    /\ \A j \in 1..(i - 1) : tasks[j].id # tid

\* variant: the already-done test is left out
is_done_never(t) == FALSE

\* the test "if t["status"] == "done"" of cmd_done
is_done(t) == t.status = "done"

has_id(tasks, tid) == \E i \in DOMAIN tasks : tasks[i].id = tid

\* variant: done_at is not set
mark_done_status_only(tasks, i, t) == [tasks EXCEPT ![i].status = "done"]

\* variant: every task is stamped, not only the matching one
mark_done_all(tasks, i, t) ==
  [j \in DOMAIN tasks |->
     [tasks[j] EXCEPT !.status = "done", !.done_at = _now_iso(t)]]

\* variant: the stamp is written to created_at as well
mark_done_moves_created(tasks, i, t) ==
  [tasks EXCEPT ![i].status = "done", ![i].done_at = _now_iso(t),
                ![i].created_at = _now_iso(t)]

\* the branch of cmd_done that marks task i done at time t
mark_done(tasks, i, t) ==
  [tasks EXCEPT ![i].status = "done", ![i].done_at = _now_iso(t)]

cmd_done(tasks, a, t) ==
  LET tid == a.id
  IN IF has_id(tasks, tid)
     THEN LET i == first_match(tasks, tid)
          IN IF is_done(tasks[i])
             THEN Outcome(tasks, << Line("already done", tid, <<>>) >>, FALSE, 0)
             ELSE Outcome(mark_done(tasks, i, t),
                          << Line("completed", tid, tasks[i].title) >>, TRUE, 0)
     ELSE Outcome(tasks, << Line("not found", tid, <<>>) >>, FALSE, 0)

\* variant: the argument is used as a position in the list
without_id_by_position(tasks, tid) ==
  IF tid \in DOMAIN tasks
  THEN SubSeq(tasks, 1, tid - 1) \o SubSeq(tasks, tid + 1, Len(tasks))
  ELSE tasks

\* the list comprehension of cmd_delete
without_id(tasks, tid) == SelectSeq(tasks, LAMBDA t : t.id # tid)

\* variant: the list is saved whether or not a task was removed
cmd_delete_always_saves(tasks, a) ==
  LET kept == SelectSeq(tasks, LAMBDA x : x.id # a.id)
  IN Outcome(kept,
             << Line(IF Len(kept) = Len(tasks) THEN "not found" ELSE "deleted",
                     a.id, <<>>) >>,
             TRUE, 0)

cmd_delete(tasks, a) ==
  LET before == Len(tasks)
      kept == without_id(tasks, a.id)
  IN IF Len(kept) = before
     THEN Outcome(tasks, << Line("not found", a.id, <<>>) >>, FALSE, 0)
     ELSE Outcome(kept, << Line("deleted", a.id, <<>>) >>, TRUE, 0)

\* args.func(args) on the loaded list, at time t
func(tasks, a, t) ==
  CASE a.command = "add" -> cmd_add(tasks, a, t)
    [] a.command = "list" -> cmd_list(tasks, a)
    [] a.command = "done" -> cmd_done(tasks, a, t)
    [] a.command = "delete" -> cmd_delete(tasks, a)

\* the command lines the parser accepts; --done and --all exclude each other
AddArgs == { Namespace("add", title, 0, FALSE, FALSE) : title \in Titles }
ListArgs == { Namespace("list", <<>>, 0, fl[1], fl[2]) :
                fl \in { <<FALSE, FALSE>>, <<FALSE, TRUE>>, <<TRUE, FALSE>> } }
DoneArgs == { Namespace("done", <<>>, tid, FALSE, FALSE) : tid \in ArgIds }
DeleteArgs == { Namespace("delete", <<>>, tid, FALSE, FALSE) : tid \in ArgIds }

(* --------------------- one invocation after another ------------------- *)
NoArgs == Namespace("none", <<>>, 0, FALSE, FALSE)

\* the local variables of a command: the list "tasks", and the line it
\* prints once _save has returned
Locals(tasks, line) == [tasks |-> tasks, line |-> line]

\* no invocation has started
Fresh ==
  /\ now = 0
  /\ args = NoArgs
  /\ out = <<>>
  /\ saved = FALSE
  /\ exit = 0
  /\ issued = <<>>
  /\ pc = [p \in Procs |-> "start"]
  /\ pargs = [p \in Procs |-> NoArgs]
  /\ local = [p \in Procs |-> Locals(<<>>, <<>>)]
  /\ pout = [p \in Procs |-> <<>>]
  /\ race = FALSE
  /\ origin = file

Init == file = Missing /\ Fresh

\* main() run from start to end with no other invocation in between: the
\* parsed arguments a, the preliminary _load() whose result is dropped, then
\* the command, which loads, acts at time now, and saves if it mutated.
\* An exception that escapes ends the process with exit code 1.
main(a) ==
  /\ args' = a
  /\ IF load_result(file).raised # ""
     THEN /\ out' = << Line("Traceback", 0, <<>>) >>
          /\ exit' = 1
          /\ saved' = FALSE
          /\ UNCHANGED <<file, issued>>
     ELSE LET r == func(_load(file), a, now)
          IN /\ file' = IF r.save THEN _save(r.tasks) ELSE file
             /\ saved' = r.save
             /\ out' = r.out
             /\ issued' = IF r.given # 0 THEN Append(issued, r.given) ELSE issued
             /\ exit' = 0
  /\ UNCHANGED <<now, pc, pargs, local, pout, race, origin>>

\* the clock advances by one second
Tick ==
  /\ now < MaxNow
  /\ now' = now + 1
  /\ UNCHANGED <<file, issued, pc, pargs, local, pout, race, origin>>
  /\ UNCHANGED <<args, out, saved, exit>>

\* add is run while the bounds of the model allow one more task
AddStep ==
  /\ Len(issued) < MaxAdds
  /\ Len(_load(file)) < MaxTasks
  /\ \E a \in AddArgs : main(a)

ListStep == \E a \in ListArgs : main(a)

DoneStep == \E a \in DoneArgs : main(a)

DeleteStep == \E a \in DeleteArgs : main(a)

Next == Tick \/ AddStep \/ ListStep \/ DoneStep \/ DeleteStep

Spec == Init /\ [][Next]_vars

(* ------------------------ concurrent invocations ---------------------- *)
\* Each process of Procs is one invocation of main().  It touches the file
\* at its two loads, at the open of _save, which empties the file, and at the
\* end of _save, when the dumped text is in the file.
seq_vars == <<args, out, saved, exit, origin>>

\* main() up to the preliminary _load(), whose result is dropped
Begin(p) ==
  /\ pc[p] = "start"
  /\ \E a \in AddArgs \cup ListArgs \cup DoneArgs \cup DeleteArgs :
       pargs' = [pargs EXCEPT ![p] = a]
  /\ IF load_result(file).raised # ""
     THEN /\ pc' = [pc EXCEPT ![p] = "end"]
          /\ pout' = [pout EXCEPT ![p] = << Line("Traceback", 0, <<>>) >>]
     ELSE /\ pc' = [pc EXCEPT ![p] = "cmd"]
          /\ UNCHANGED pout
  /\ UNCHANGED <<file, now, issued, local, race>>
  /\ UNCHANGED seq_vars

\* tasks = _load() of the command
CmdLoad(p) ==
  /\ pc[p] = "cmd"
  /\ IF load_result(file).raised # ""
     THEN /\ pc' = [pc EXCEPT ![p] = "end"]
          /\ pout' = [pout EXCEPT ![p] = << Line("Traceback", 0, <<>>) >>]
          /\ UNCHANGED <<local, race>>
     ELSE /\ pc' = [pc EXCEPT ![p] = "loaded"]
          /\ local' = [local EXCEPT ![p] = Locals(_load(file), <<>>)]
          /\ race' = (race \/ \E q \in Procs \ {p} : pc[q] = "loaded")
          /\ UNCHANGED pout
  /\ UNCHANGED <<file, now, issued, pargs>>
  /\ UNCHANGED seq_vars

\* a command that does not save prints and returns
Finish(p) ==
  /\ pc[p] = "loaded"
  /\ LET r == func(local[p].tasks, pargs[p], now)
     IN /\ ~r.save
        /\ pout' = [pout EXCEPT ![p] = r.out]
  /\ pc' = [pc EXCEPT ![p] = "end"]
  /\ UNCHANGED <<file, now, issued, pargs, local, race>>
  /\ UNCHANGED seq_vars

\* a command that saves: the list is changed in memory at time now and
\* _save opens the file for writing
OpenW(p) ==
  /\ pc[p] = "loaded"
  /\ LET r == func(local[p].tasks, pargs[p], now)
     IN /\ r.save
        /\ local' = [local EXCEPT ![p] = Locals(r.tasks, r.out)]
        /\ issued' = IF r.given # 0 THEN Append(issued, r.given) ELSE issued
  /\ file' = opened_w
  /\ pc' = [pc EXCEPT ![p] = "writing"]
  /\ UNCHANGED <<now, pargs, pout, race>>
  /\ UNCHANGED seq_vars

\* the end of _save: the dumped list is the content of the file, and the
\* command prints its line
Close(p) ==
  /\ pc[p] = "writing"
  /\ file' = _save(local[p].tasks)
  /\ pout' = [pout EXCEPT ![p] = local[p].line]
  /\ pc' = [pc EXCEPT ![p] = "end"]
  /\ UNCHANGED <<now, issued, pargs, local, race>>
  /\ UNCHANGED seq_vars

\* stores the program writes when invocations run one after another
ConcFiles ==
  { Missing,
    json_dump(<< [id |-> 1, title |-> <<"a">>, status |-> "open",
                  created_at |-> "T0", done_at |-> None] >>),
    json_dump(<< [id |-> 1, title |-> <<"a">>, status |-> "done",
                  created_at |-> "T0", done_at |-> "T0"],
                 [id |-> 2, title |-> <<>>, status |-> "open",
                  created_at |-> "T0", done_at |-> None] >>) }

InitConc == file \in ConcFiles /\ Fresh

NextConc ==
  \/ Tick
  \/ \E p \in Procs : Begin(p) \/ CmdLoad(p) \/ Finish(p) \/ OpenW(p) \/ Close(p)

SpecConc == InitConc /\ [][NextConc]_vars

(* ------------- invocations on a file the program did not write -------- *)
\* files edited by hand, in which two records share the id 1
EditedFiles ==
  LET open_a == [id |-> 1, title |-> <<"a">>, status |-> "open",
                 created_at |-> "T0", done_at |-> null]
      open_b == [id |-> 1, title |-> <<>>, status |-> "open",
                 created_at |-> "T0", done_at |-> null]
      done_a == [id |-> 1, title |-> <<"a">>, status |-> "done",
                 created_at |-> "T0", done_at |-> "T0"]
      other == [id |-> 2, title |-> <<"a">>, status |-> "open",
                created_at |-> "T0", done_at |-> null]
  IN { [kind |-> "array", items |-> <<open_a, open_b>>],
       [kind |-> "array", items |-> <<done_a, open_b>>],
       [kind |-> "array", items |-> <<open_a, other, open_b>>] }

InitFiles == {Missing, Malformed, Undecodable, JsonObject, JsonNumber} \cup EditedFiles

InitFile == file \in InitFiles /\ Fresh

AddFileStep ==
  /\ Len(issued) < MaxFileAdds
  /\ \E a \in AddArgs : main(a)

NextFile == Tick \/ AddFileStep \/ ListStep \/ DoneStep \/ DeleteStep

SpecFile == InitFile /\ [][NextFile]_vars

(* ======================= properties of the store ====================== *)
\* the records persisted in DATA_FILE, as written (no conversion applied)
Stored(f) == IF f.kind = "array" THEN f.items ELSE <<>>

StoredIds(f) == { Stored(f)[i].id : i \in DOMAIN Stored(f) }

\* C1: the ids given by successive add invocations are strictly increasing,
\* so no id is given twice, whatever deletes happen between the adds.
C1_IdsStrictlyIncreasing ==
  \A i \in DOMAIN issued : \A j \in DOMAIN issued : i < j => issued[i] < issued[j]

\* C2: in every persisted store reached from the missing file by commands run
\* one after another, all ids are positive integers and pairwise distinct.
C2_UniquePositiveIds ==
  LET s == Stored(file)
  IN /\ \A i \in DOMAIN s : s[i].id \in Nat /\ s[i].id > 0
     /\ \A i \in DOMAIN s : \A j \in DOMAIN s : i # j => s[i].id # s[j].id

C2_Witness ==
  /\ Len(issued) = 3
  /\ Len(Stored(file)) = 2
  /\ args.command = "add"

\* C3: every persisted task with status done has done_at set, and every
\* persisted task with status open has done_at null.
C3_StatusMatchesDoneAt ==
  LET s == Stored(file)
  IN \A i \in DOMAIN s :
       /\ s[i].status = "done" => s[i].done_at # null
       /\ s[i].status = "open" => s[i].done_at = null

C3_Witness ==
  LET s == Stored(file)
  IN /\ out # <<>> /\ out[1].msg = "completed"
     /\ \E i \in DOMAIN s : s[i].status = "done"
     /\ \E i \in DOMAIN s : s[i].status = "open"

\* C4: a persisted done task is carried unchanged through every command
\* (status, done_at and all other fields) unless that command is the delete
\* of its id, which removes it; created_at of a task never changes, and a
\* done_at that is set never changes.
C4_Step ==
  LET s == Stored(file)
      s2 == Stored(file')
  IN /\ \A i \in DOMAIN s :
          s[i].status = "done" =>
            \/ \E j \in DOMAIN s2 : s2[j] = s[i]
            \/ /\ args'.command = "delete"
               /\ args'.id = s[i].id
               /\ \A j \in DOMAIN s2 : s2[j].id # s[i].id
     /\ \A i \in DOMAIN s : \A j \in DOMAIN s2 :
          s[i].id = s2[j].id =>
            /\ s2[j].created_at = s[i].created_at
            /\ s[i].done_at # null => s2[j].done_at = s[i].done_at

C4_DoneIsTerminal == [][C4_Step]_vars

C4_Witness ==
  LET s == Stored(file)
  IN /\ args.command = "delete"
     /\ out[1].msg = "deleted"
     /\ \E i \in DOMAIN s :
          /\ s[i].status = "done"
          /\ s[i].done_at # _now_iso(now)

\* (a step that leaves the clock alone is the step of a command)
\* C5: a done(id) that follows a done(id) with the same id leaves the file
\* as the first one left it and does not save, also when the clock advanced
\* between the two.
C5_Step ==
  (now' = now /\ args.command = "done" /\ args'.command = "done" /\ args'.id = args.id)
    => (file' = file /\ ~saved')

C5_DoneIdempotent == [][C5_Step]_vars

C5_Witness ==
  LET s == Stored(file)
  IN /\ args.command = "done"
     /\ out[1].msg = "already done"
     /\ ~saved
     /\ \E i \in DOMAIN s :
          s[i].id = args.id /\ s[i].status = "done" /\ s[i].done_at # _now_iso(now)

\* C6: delete(k) of an id k present in the store leaves the store equal to
\* the previous sequence with exactly the task of id k taken out.
C6_Step ==
  LET s == Stored(file)
      k == args'.id
  IN (args'.command = "delete" /\ \E i \in DOMAIN s : s[i].id = k)
       => \E i \in DOMAIN s :
            /\ s[i].id = k
            /\ Stored(file') = SubSeq(s, 1, i - 1) \o SubSeq(s, i + 1, Len(s))

C6_DeleteExact == [][C6_Step]_vars

C6_Witness ==
  /\ args.command = "delete"
  /\ out[1].msg = "deleted"
  /\ Len(Stored(file)) = 2
  /\ Stored(file)[1].id < args.id
  /\ Stored(file)[2].id > args.id
  /\ Stored(file)[1].status # Stored(file)[2].status

\* C7: done(id) and delete(id) with an id that no persisted task has print
\* the not-found message, do not save, leave the file as it was and exit 0.
C7_Step ==
  (now' = now /\ args'.command \in {"done", "delete"} /\ args'.id \notin StoredIds(file))
    => /\ out' = << Line("not found", args'.id, <<>>) >>
       /\ ~saved'
       /\ file' = file
       /\ exit' = 0

C7_NotFound == [][C7_Step]_vars

C7_Witness ==
  /\ args.command = "done"
  /\ out = << Line("not found", args.id, <<>>) >>
  /\ Stored(file) # <<>>
  /\ args.id \notin StoredIds(file)

\* C8: the tasks shown by list --all are exactly those shown by list or by
\* list --done, no task is shown by both, and each of the three views shows
\* its tasks in the order of the store.
Shown(all, done) == view(_load(file), all, done)

Elems(q) == { q[i] : i \in DOMAIN q }

\* q lists some of the tasks of the store, each once, in the store's order
InStoreOrder(q) ==
  LET t == _load(file)
  IN \E pos \in [DOMAIN q -> DOMAIN t] :
       /\ \A i \in DOMAIN q : t[pos[i]] = q[i]
       /\ \A i \in DOMAIN q : \A j \in DOMAIN q : i < j => pos[i] < pos[j]

C8_FilterCorrect ==
  /\ Elems(Shown(TRUE, FALSE)) = Elems(Shown(FALSE, FALSE)) \cup Elems(Shown(FALSE, TRUE))
  /\ Elems(Shown(FALSE, FALSE)) \cap Elems(Shown(FALSE, TRUE)) = {}
  /\ Len(Shown(TRUE, FALSE)) = Len(Shown(FALSE, FALSE)) + Len(Shown(FALSE, TRUE))
  /\ Shown(TRUE, FALSE) = _load(file)
  /\ InStoreOrder(Shown(FALSE, FALSE))
  /\ InStoreOrder(Shown(FALSE, TRUE))

C8_Witness ==
  /\ args.command = "list"
  /\ args.all
  /\ Len(out) = 3
  /\ \E i \in DOMAIN out : out[i].msg = "done"
  /\ \E i \in DOMAIN out : out[i].msg = "open"

\* C9: when the file is missing, is malformed text, or is well-formed with a
\* top level that is not a list, _load returns the empty list and raises
\* nothing, and list --all prints the no-tasks message and exits 0.
Corrupt(f) == f.kind \in {"missing", "malformed", "object", "number"}

Ended(p) == pc[p] = "end"

Saved(p) == pout[p] # <<>> /\ pout[p][1].msg \in {"added", "completed", "deleted"}

C10_LostUpdate ==
  \A p \in Procs : \A q \in Procs \ {p} :
    (race /\ Ended(p) /\ Ended(q) /\ Saved(p) /\ Saved(q)) =>
      /\ file \in {json_dump(local[p].tasks), json_dump(local[q].tasks)}
      /\ (pargs[p].command = "add" /\ pargs[q].command = "add") =>
           /\ pout[p][1].id = pout[q][1].id
           /\ Len(local[p].tasks) = Len(local[q].tasks)
           /\ Len(Stored(file)) = Len(local[p].tasks)

\* both adds ended and reported the same id, and the task of one of them is
\* not in the file
C10_Witness ==
  \E p \in Procs : \E q \in Procs \ {p} :
    /\ race
    /\ Ended(p) /\ Ended(q)
    /\ pargs[p].command = "add" /\ pargs[q].command = "add"
    /\ pout[p][1].msg = "added" /\ pout[q][1].msg = "added"
    /\ pout[p][1].id = pout[q][1].id
    /\ pout[p][1].title # pout[q][1].title
    /\ \A i \in DOMAIN Stored(file) : Stored(file)[i].title # pout[p][1].title

\* C11: the order of the store is the order of creation: through every
\* command, two tasks that are in the store before and after keep their
\* relative order, and a task that is new is behind every other task.
PosOf(s, id) == CHOOSE i \in DOMAIN s : s[i].id = id

C11_Step ==
  LET s == Stored(file)
      s2 == Stored(file')
  IN /\ \A i \in DOMAIN s : \A j \in DOMAIN s :
          (i < j /\ s[i].id \in StoredIds(file') /\ s[j].id \in StoredIds(file'))
            => PosOf(s2, s[i].id) < PosOf(s2, s[j].id)
     /\ \A j \in DOMAIN s2 :
          s2[j].id \notin StoredIds(file) => j = Len(s2)

C11_OrderKept == [][C11_Step]_vars

C11_Witness ==
  LET s == Stored(file)
  IN /\ args.command = "add"
     /\ Len(s) = 2
     /\ s[1].status = "done"
     /\ s[1].id = 2
     /\ s[2].id = 3

C13_TitlesNonEmptyStripped ==
  LET s == Stored(file)
  IN \A i \in DOMAIN s :
       /\ s[i].title # <<>>
       /\ Head(s[i].title) # " "
       /\ s[i].title[Len(s[i].title)] # " "

\* C13 as amended: every task in the store has a title with no whitespace at
\* its start or end; the title add stores is empty exactly when the title it
\* was given is empty or whitespace only, and is not empty otherwise.
Blank(title) == \A i \in DOMAIN title : title[i] = " "

C13_Step ==
  LET s2 == Stored(file')
  IN /\ \A i \in DOMAIN s2 :
          s2[i].title # <<>> =>
            (Head(s2[i].title) # " " /\ s2[i].title[Len(s2[i].title)] # " ")
     /\ (now' = now /\ args'.command = "add" /\ Len(issued') = Len(issued) + 1)
          => (s2[Len(s2)].title = <<>> <=> Blank(args'.title))

C13_TitlesStripped == [][C13_Step]_vars

C13_Witness ==
  LET s == Stored(file)
  IN /\ args.command = "add"
     /\ args.title = <<" ">>
     /\ Len(s) = 2
     /\ s[1].title = <<"a">>
     /\ s[2].title = <<>>

\* C14: the id given by add is 1 on an empty list and otherwise 1 + the
\* largest id in the list, so it is greater than every id in the store; after
\* add, add, delete 1, add the store holds the ids 2 and 3 and the last add
\* was given 3.
AddStepOf == now' = now /\ args'.command = "add" /\ Len(issued') = Len(issued) + 1

C14_Step ==
  AddStepOf =>
    LET given == issued'[Len(issued')]
        ids == StoredIds(file)
    IN /\ ids = {} => given = 1
       /\ ids # {} => (given - 1 \in ids /\ \A x \in ids : x <= given - 1)
       /\ \A x \in ids : given > x
       /\ (issued = <<1, 2>> /\ ids = {2}) => (given = 3 /\ StoredIds(file') = {2, 3})

C14_NextId == [][C14_Step]_vars

C14_Witness ==
  /\ args.command = "add"
  /\ issued = <<1, 2, 3>>
  /\ StoredIds(file) = {2, 3}
  /\ out[1].id = 3

\* C15: add puts exactly one task behind the tasks of the store: it is open,
\* its done_at is null, its id is the id add was given, greater than every id
\* of the store; the store is saved and every earlier task is where and as
\* it was.
C15_Step ==
  AddStepOf =>
    LET s == Stored(file)
        s2 == Stored(file')
        t == s2[Len(s2)]
    IN /\ file'.kind = "array"
       /\ Len(s2) = Len(s) + 1
       /\ SubSeq(s2, 1, Len(s)) = s
       /\ t.status = "open"
       /\ t.done_at = null
       /\ t.created_at = _now_iso(now)
       /\ t.id = issued'[Len(issued')]
       /\ \A x \in StoredIds(file) : t.id > x
       /\ saved'

C15_AddAppends == [][C15_Step]_vars

C15_Witness ==
  LET s == Stored(file)
  IN /\ args.command = "add"
     /\ saved
     /\ Len(s) = 3
     /\ s[1].status = "done"
     /\ s[3].status = "open"
     /\ s[3].created_at # s[1].created_at

\* C16: list, under each of its three filters and on any content of the
\* file, does not save: the file is after the invocation what it was before.
C16_Step ==
  (now' = now /\ args'.command = "list") => (file' = file /\ ~saved')

C16_ListReadOnly == [][C16_Step]_vars

C16_Witness ==
  /\ args.command = "list"
  /\ args.done
  /\ ~saved
  /\ file.kind = "array"
  /\ Len(Stored(file)) = 2
  /\ out = << Line("done", 1, <<"a">>) >>

\* C19: done(id) on an open task changes the status and the done_at of that
\* task and nothing else: its id, title and created_at, the length and order
\* of the store and every other task are as before.
C19_Step ==
  LET s == Stored(file)
      s2 == Stored(file')
      k == args'.id
  IN (/\ now' = now
      /\ args'.command = "done"
      /\ \E i \in DOMAIN s : s[i].id = k /\ s[i].status = "open")
       => /\ Len(s2) = Len(s)
          /\ \A j \in DOMAIN s :
               IF s[j].id = k
               THEN /\ s2[j].id = s[j].id
                    /\ s2[j].title = s[j].title
                    /\ s2[j].created_at = s[j].created_at
                    /\ s2[j].status = "done"
                    /\ s2[j].done_at = _now_iso(now)
               ELSE s2[j] = s[j]

C19_DoneFrame == [][C19_Step]_vars

C19_Witness ==
  LET s == Stored(file)
  IN /\ args.command = "done"
     /\ args.id = 2
     /\ out[1].msg = "completed"
     /\ Len(s) = 3
     /\ s[1].status = "open"
     /\ s[2].status = "done"
     /\ s[2].created_at # s[2].done_at
     /\ s[3].status = "open"

\* C17: on a store in which several tasks have the same id, done(id) acts on
\* the first of them in the order of the store and on no other task: it marks
\* it done if it is open, and reports already-done and changes nothing if it
\* is done, also when a later task with the id is open; delete(id) removes
\* every task with the id.
FirstWith(s, k) ==
  CHOOSE i \in DOMAIN s : s[i].id = k /\ \A j \in DOMAIN s : s[j].id = k => i <= j

C17_Step ==
  LET s == Stored(file)
      s2 == Stored(file')
      k == args'.id
  IN /\ (now' = now /\ args'.command = "done" /\ k \in StoredIds(file)) =>
          LET i == FirstWith(s, k)
          IN IF s[i].status = "done"
             THEN /\ file' = file
                  /\ ~saved'
                  /\ out' = << Line("already done", k, <<>>) >>
             ELSE /\ Len(s2) = Len(s)
                  /\ s2[i].status = "done"
                  /\ s2[i].done_at = _now_iso(now)
                  /\ \A j \in DOMAIN s : j # i => s2[j] = s[j]
     /\ (now' = now /\ args'.command = "delete" /\ k \in StoredIds(file)) =>
          /\ k \notin StoredIds(file')
          /\ s2 = SelectSeq(s, LAMBDA t : t.id # k)

C17_FirstMatchOnly == [][C17_Step]_vars

\* done 1 was run on a file whose first task with id 1 is done and whose
\* later task with id 1 is open
C17_Witness ==
  LET s == Stored(file)
  IN /\ args.command = "done"
     /\ args.id = 1
     /\ out = << Line("already done", 1, <<>>) >>
     /\ Len(s) = 2
     /\ s[1].id = 1 /\ s[1].status = "done"
     /\ s[2].id = 1 /\ s[2].status = "open"

\* C20: on a file that is malformed or whose top level is not a list, add
\* takes the store as empty and overwrites the file, which then holds one
\* task, with id 1 and status open, and nothing of what it held; done and
\* delete report not-found and leave the file as it is.
Unusable(f) == f.kind \in {"malformed", "object", "number"}

C20_Step ==
  (now' = now /\ Unusable(file)) =>
    /\ args'.command = "add" =>
         /\ file'.kind = "array"
         /\ Len(file'.items) = 1
         /\ file'.items[1].id = 1
         /\ file'.items[1].status = "open"
         /\ saved'
    /\ args'.command \in {"done", "delete"} =>
         /\ out' = << Line("not found", args'.id, <<>>) >>
         /\ file' = file
         /\ ~saved'

C18_WrittenIdsDistinct ==
  LET s == Stored(file)
  IN \A i \in DOMAIN s : \A j \in DOMAIN s : i # j => s[i].id # s[j].id

\* a delete and an add raced; the add wrote last and brought back the task
\* the delete had removed
C18_Witness ==
  \E p \in Procs : \E q \in Procs \ {p} :
    /\ race
    /\ Ended(p) /\ Ended(q)
    /\ pargs[p].command = "delete" /\ Saved(p)
    /\ pargs[q].command = "add" /\ Saved(q)
    /\ Len(Stored(file)) = 3
    /\ pargs[p].id \in StoredIds(file)
====
